---- MODULE Spec2Model ----
(***************************************************************************)
(* State-machine model of the Sambo habit tracker.  The repository holds   *)
(* two implementations of the class SamboBot: src/bot.py (recorders with   *)
(* try/except, label-based activity rows, Telegram handlers) and           *)
(* src/sambo_core.py (recorders without try/except, fixed-position rows).  *)
(* The variable impl says which of the two is running.  The backing store  *)
(* is three worksheets, each a sequence of rows of cell texts; row 1 is    *)
(* the header row.  The variable gspread is the major version of the       *)
(* installed gspread library (the repository pins none): version 5 reads   *)
(* a worksheet without any row as [], version 6 as [[]].  The variable     *)
(* procs holds the local variables of recorder invocations that are under  *)
(* way one store operation at a time.                                      *)
(***************************************************************************)
EXTENDS Integers, Sequences, FiniteSets, TLC

VARIABLES impl, layout, gspread, activity_sheet, consumption_sheet,
          language_sheet, today, calls, last, hist, procs

vars == <<impl, layout, gspread, activity_sheet, consumption_sheet,
          language_sheet, today, calls, last, hist, procs>>

(***************************************************************************)
(* Bounds of the model.                                                    *)
(***************************************************************************)
MaxCalls == 2
MaxHabitCalls == 5
MaxCounterCalls == 4
MaxDay == 1
MaxFaults == 1
MaxNum == 1200

(***************************************************************************)
(* Python helpers.                                                         *)
(***************************************************************************)
\* The value None (also what an empty cell reads as: both are falsy).
None == ""

\* str(n) of an int, and the text the sheet shows for a number written to it.
str(n) == ToString(n)

NumTexts == {str(n) : n \in 0..MaxNum}

intOfText == [s \in NumTexts |-> CHOOSE n \in 0..MaxNum : str(n) = s]

\* int(s) of a cell text: raises ValueError unless s is a decimal numeral.
int_ok(s) == s \in NumTexts

int(s) == intOfText[s]

\* s.strip() on cell texts: the texts with surrounding whitespace that can occur.
strip(s) ==
  CASE s = " 42" -> "42"
    [] s = "42 " -> "42"
    [] s = " " -> ""
    [] s = " 2024-01-08 " -> "2024-01-08"
    [] OTHER -> s

\* bool(v and str(v).strip()): the cell holds something that is not blank.
truthy_nonblank(v) == v # None /\ strip(v) # ""

Min(S) == CHOOSE m \in S : \A k \in S : m <= k

Max(S) == CHOOSE m \in S : \A k \in S : m >= k

(***************************************************************************)
(* Clock and calendar.  Day 0 is Monday 2024-01-08 in the fixed UTC+3      *)
(* offset; the model follows the calendar for a few days from there.       *)
(***************************************************************************)
\* now.strftime("%Y-%m-%d")
strftime_date(day) ==
  "2024-01-" \o (IF 8 + day < 10 THEN "0" ELSE "") \o str(8 + day)

\* now.strftime("%H:%M"): the time of day is not tracked.
timestamp == "HH:MM"

\* date.weekday(): Monday is 0.
weekday(day) == day % 7

get_week_number(day) == strftime_date(day - weekday(day))

(***************************************************************************)
(* The worksheet (gspread.Worksheet) as the code uses it.                  *)
(***************************************************************************)
Blanks(n) == [i \in 1..n |-> ""]

\* A row without its trailing empty cells (the API returns rows so).
RECURSIVE Trimmed(_)
Trimmed(row) ==
  IF row = <<>> THEN <<>>
  ELSE IF row[Len(row)] = "" THEN Trimmed(SubSeq(row, 1, Len(row) - 1))
  ELSE row

Width(sheet) ==
  IF sheet = <<>> THEN 0 ELSE Max({Len(Trimmed(sheet[i])) : i \in 1..Len(sheet)})

\* worksheet.get_all_values(): every row, padded to the widest row; what a
\* worksheet without any row reads as depends on the library version.
get_all_values(sheet) ==
  IF sheet = <<>> THEN (IF gspread = 5 THEN <<>> ELSE << <<>> >>)
  ELSE [i \in 1..Len(sheet) |->
          Trimmed(sheet[i]) \o Blanks(Width(sheet) - Len(Trimmed(sheet[i])))]

\* worksheet.row_values(r)
row_values(sheet, r) == IF r <= Len(sheet) THEN Trimmed(sheet[r]) ELSE <<>>

\* worksheet.cell(r, c).value: None for an empty cell.
cell(sheet, r, c) ==
  IF r <= Len(sheet) /\ c <= Len(sheet[r]) THEN sheet[r][c] ELSE None

\* A write that replaces row r by a row holding text alone in cell c, as an
\* update of the whole row range would.
update_row(sheet, r, c, text) ==
  LET grown == sheet \o [i \in 1..(r - Len(sheet)) |-> <<>>]
  IN [grown EXCEPT ![r] = Blanks(c - 1) \o <<text>>]

\* worksheet.update_cell(r, c, text): the grid grows as needed.
update_cell(sheet, r, c, text) ==
  LET grown == sheet \o [i \in 1..(r - Len(sheet)) |-> <<>>]
      row == grown[r] \o Blanks(c - Len(grown[r]))
  IN [grown EXCEPT ![r] = [row EXCEPT ![c] = text]]

\* worksheet.append_row(values): a new last row.
append_row(sheet, values) == Append(sheet, values)

\* A lookup that finds no label, whatever the header row holds.
index1_absent(headers, label) == 0

\* headers.index(label) + 1: the first exact match, 0 for ValueError.
index1(headers, label) ==
  LET hits == {i \in 1..Len(headers) : headers[i] = label}
  IN IF hits = {} THEN 0 ELSE Min(hits)

\* {h.strip(): i for i, h in enumerate(headers, start=1)}[label]: the last
\* header whose stripped text is label wins; 0 when label is no key.
col_index_map(headers, label) ==
  LET hits == {i \in 1..Len(headers) : strip(headers[i]) = label}
  IN IF hits = {} THEN 0 ELSE Max(hits)

(***************************************************************************)
(* Habit catalog.                                                          *)
(***************************************************************************)
habit_map ==
  [h \in 1..5 |->
     CASE h = 1 -> "Prayer"
       [] h = 2 -> "Qi Gong"
       [] h = 3 -> "Ball"
       [] h = 4 -> "Run/Stretch"
       [] h = 5 -> "Strength/Stretch"]

col_map ==
  [l \in {"x", "y", "z"} |->
     CASE l = "x" -> [count_col |-> "Coffee (x)", cost_col |-> "Coffee Cost", name |-> "Coffee"]
       [] l = "y" -> [count_col |-> "Sugary (y)", cost_col |-> "Sugary Cost", name |-> "Sugary drinks"]
       [] l = "z" -> [count_col |-> "Flour (z)", cost_col |-> "Flour Cost", name |-> "Flour products"]]

lang_map ==
  [c \in {"ch", "he", "ta"} |->
     CASE c = "ch" -> [column_name |-> "Chinese (ch)", lang_name |-> "Chinese"]
       [] c = "he" -> [column_name |-> "Hebrew (he)", lang_name |-> "Hebrew"]
       [] c = "ta" -> [column_name |-> "Tatar (ta)", lang_name |-> "Tatar"]]

\* What a recorder hands back: the sheet as it left it, the pair (ok, msg),
\* whether an exception escaped instead of a pair, and the number of store
\* operations the call made.  A message is kept without its leading check
\* mark and without the habit's display name, and the check mark written
\* to a cell is the letter v.
Returned(sheet, ok, msg, nops) ==
  [sheet |-> sheet, ok |-> ok, msg |-> msg, raised |-> FALSE, nops |-> nops]

Raised(sheet, nops) ==
  [sheet |-> sheet, ok |-> FALSE, msg |-> "", raised |-> TRUE, nops |-> nops]

\* What a row resolver hands back: the sheet, the row number (0 for None),
\* the number of store operations it made, whether an exception escaped.
Resolved(sheet, row, nops, exc) ==
  [sheet |-> sheet, row |-> row, nops |-> nops, exc |-> exc]

\* The one element of a singleton set: The({e(v) : v \in {x}}) computes x
\* once and hands its value to e.
The(S) == CHOOSE v \in S : TRUE

(***************************************************************************)
(* src/bot.py: activity.  fail is the number of the store operation of     *)
(* this call that raises (0: none does).                                   *)
(***************************************************************************)
find_or_create_activity_row_bot(sheet, user_id, date_str, week_number, fail) ==
  LET at(row, i) == IF Len(row) >= i THEN row[i] ELSE ""
      scan(all_data, headers, iu, id, iw) ==
        LET user_id_str == strip(str(user_id))
            date_str_clean == strip(date_str)
            hits == {i \in 2..Len(all_data) :
                       /\ strip(at(all_data[i], iu)) = user_id_str
                       /\ strip(at(all_data[i], id)) = date_str_clean}
            new_row == [i \in 1..Len(headers) |->
                          IF i = iw THEN week_number
                          ELSE IF i = id THEN date_str_clean
                          ELSE IF i = iu THEN user_id_str
                          ELSE ""]
        IN IF 0 \in {iu, id, iw} THEN Resolved(sheet, 0, 2, FALSE)
           ELSE IF hits # {} THEN Resolved(sheet, Min(hits), 2, FALSE)
           ELSE IF fail = 3 THEN Resolved(sheet, 0, 3, FALSE)
           ELSE IF fail = 4 THEN Resolved(append_row(sheet, new_row), 0, 4, FALSE)
           ELSE The({Resolved(appended, Len(get_all_values(appended)), 4, FALSE) :
                       appended \in {append_row(sheet, new_row)}})
  IN IF fail \in {1, 2} THEN Resolved(sheet, 0, fail, FALSE)
     ELSE The({scan(all_data, headers, col_index_map(headers, "User ID"),
                    col_index_map(headers, "Date"),
                    col_index_map(headers, "Week Number")) :
                 all_data \in {get_all_values(sheet)},
                 headers \in {row_values(sheet, 1)}})

record_activity_bot(sheet, user_id, habit_id, day, fail) ==
  LET error(sh, n) == Returned(sh, FALSE, "Error recording habit", n)
      write(r, col_index) ==
        LET b == r.nops
        IN IF fail = b + 1 THEN error(r.sheet, b + 1)
           ELSE IF col_index = 0
           THEN Returned(r.sheet, FALSE,
                         "Column not found in sheet. Please add it manually.", b + 1)
           ELSE IF fail = b + 2 THEN error(r.sheet, b + 2)
           ELSE IF truthy_nonblank(cell(r.sheet, r.row, col_index))
           THEN Returned(r.sheet, FALSE, "already recorded today", b + 2)
           ELSE IF fail = b + 3 THEN error(r.sheet, b + 3)
           ELSE IF fail = b + 4
           THEN error(update_cell(r.sheet, r.row, col_index, "v"), b + 4)
           ELSE Returned(update_cell(r.sheet, r.row, col_index, "v"), TRUE,
                         "recorded at " \o timestamp, b + 4)
      resolved(r) ==
        IF r.row = 0
        THEN Returned(r.sheet, FALSE, "Failed to create activity row", r.nops)
        ELSE The({write(r, col_index) :
                    col_index \in {col_index_map(row_values(r.sheet, 1),
                                                 habit_map[habit_id])}})
  IN IF habit_id \notin DOMAIN habit_map
     THEN Returned(sheet, FALSE, "Invalid habit number. Use 1-5.", 0)
     ELSE The({resolved(r) :
                 r \in {find_or_create_activity_row_bot(
                          sheet, user_id, strftime_date(day),
                          get_week_number(day), fail)}})

(***************************************************************************)
(* src/sambo_core.py: activity.  No exception is caught here.              *)
(***************************************************************************)
\* A resolver that appends a row without looking for the caller's row.
find_or_create_activity_row_core_blind(sheet, user_id, date_str, week_number, fail) ==
  IF fail \in {1, 2} THEN Resolved(sheet, 0, fail, TRUE)
  ELSE Resolved(append_row(sheet, <<str(user_id), date_str, "", "", "", "", "",
                                    week_number, "">>),
                Len(get_all_values(sheet)) + 1, 2, FALSE)

find_or_create_activity_row_core(sheet, user_id, date_str, week_number, fail) ==
  LET new_row == <<str(user_id), date_str, "", "", "", "", "", week_number, "">>
      scan(all_data) ==
        LET hits == {i \in 2..Len(all_data) :
                       /\ Len(all_data[i]) > 1
                       /\ all_data[i][1] = str(user_id)
                       /\ all_data[i][2] = date_str}
        IN IF hits # {} THEN Resolved(sheet, Min(hits), 1, FALSE)
           ELSE IF fail = 2 THEN Resolved(sheet, 0, 2, TRUE)
           ELSE Resolved(append_row(sheet, new_row), Len(all_data) + 1, 2, FALSE)
  IN IF fail = 1 THEN Resolved(sheet, 0, 1, TRUE)
     ELSE The({scan(all_data) : all_data \in {get_all_values(sheet)}})

record_activity_core(sheet, user_id, habit_id, day, fail) ==
  LET write(r, headers, found) ==
        LET b == r.nops
            b2 == IF found = 0 THEN b + 2 ELSE b + 1
            col_index == IF found = 0 THEN Len(headers) + 1 ELSE found
            labelled == IF found = 0
                        THEN update_cell(r.sheet, 1, Len(headers) + 1,
                                         habit_map[habit_id])
                        ELSE r.sheet
            check(sh) ==
              IF fail = b2 + 1 THEN Raised(sh, b2 + 1)
              ELSE IF truthy_nonblank(cell(sh, r.row, col_index))
              THEN Returned(sh, FALSE, "already recorded today", b2 + 1)
              ELSE IF fail = b2 + 2 THEN Raised(sh, b2 + 2)
              ELSE Returned(update_cell(sh, r.row, col_index,
                                        "v (" \o timestamp \o ")"),
                            TRUE, "recorded at " \o timestamp, b2 + 2)
        IN IF fail = b + 1 THEN Raised(r.sheet, b + 1)
           ELSE IF found = 0 /\ fail = b + 2 THEN Raised(r.sheet, b + 2)
           ELSE The({check(sh) : sh \in {labelled}})
      resolved(r) ==
        IF r.exc THEN Raised(r.sheet, r.nops)
        ELSE IF r.row = 0
        THEN Returned(r.sheet, FALSE, "Failed to create activity row", r.nops)
        ELSE The({write(r, headers, index1(headers, habit_map[habit_id])) :
                    headers \in {row_values(r.sheet, 1)}})
  IN IF habit_id \notin DOMAIN habit_map
     THEN Returned(sheet, FALSE, "Invalid habit number. Use 1-5.", 0)
     ELSE The({resolved(r) :
                 r \in {find_or_create_activity_row_core(
                          sheet, user_id, strftime_date(day),
                          get_week_number(day), fail)}})

(***************************************************************************)
(* Command text.  A text is a sequence of one-character strings, so that   *)
(* strip, lower, split and the number parsers are computed, not assumed.   *)
(***************************************************************************)
Digits == {"0", "1", "2", "3", "4", "5", "6", "7", "8", "9"}

DigitVal(c) ==
  CASE c = "0" -> 0 [] c = "1" -> 1 [] c = "2" -> 2 [] c = "3" -> 3 [] c = "4" -> 4
    [] c = "5" -> 5 [] c = "6" -> 6 [] c = "7" -> 7 [] c = "8" -> 8 [] c = "9" -> 9

\* c.lower() for the letters of the input alphabet.
lower_char(c) ==
  CASE c = "X" -> "x" [] c = "Y" -> "y" [] c = "Z" -> "z"
    [] c = "C" -> "c" [] c = "H" -> "h" [] OTHER -> c

lower(text) == [i \in 1..Len(text) |-> lower_char(text[i])]

RECURSIVE lstrip(_)
lstrip(text) ==
  IF text # <<>> /\ text[1] = " " THEN lstrip(Tail(text)) ELSE text

RECURSIVE rstrip(_)
rstrip(text) ==
  IF text # <<>> /\ text[Len(text)] = " "
  THEN rstrip(SubSeq(text, 1, Len(text) - 1)) ELSE text

text_strip(text) == rstrip(lstrip(text))

\* The first token of a text that starts with no whitespace.
RECURSIVE first_token(_)
first_token(text) ==
  IF text = <<>> \/ text[1] = " " THEN <<>>
  ELSE <<text[1]>> \o first_token(Tail(text))

\* text.split(): the tokens between runs of whitespace.
RECURSIVE split(_)
split(text) ==
  LET t == lstrip(text)
      tok == first_token(t)
  IN IF t = <<>> THEN <<>>
     ELSE <<tok>> \o split(SubSeq(t, Len(tok) + 1, Len(t)))

\* "".join(text): the text as one string.
RECURSIVE join(_)
join(text) == IF text = <<>> THEN "" ELSE text[1] \o join(Tail(text))

RECURSIVE nat_of(_)
nat_of(ds) ==
  IF ds = <<>> THEN 0
  ELSE 10 * nat_of(SubSeq(ds, 1, Len(ds) - 1)) + DigitVal(ds[Len(ds)])

\* tok.isdigit()
isdigit(tok) == tok # <<>> /\ \A i \in 1..Len(tok) : tok[i] \in Digits

\* tok.replace('.', '')
RECURSIVE without_dots(_)
without_dots(tok) ==
  IF tok = <<>> THEN <<>>
  ELSE (IF tok[1] = "." THEN <<>> ELSE <<tok[1]>>) \o without_dots(Tail(tok))

\* A cost parser that reads every token as 0.
int_float_zero(tok) == [kind |-> "int", val |-> 0]

\* int(float(tok)) for a token of the input alphabet (digits, letters, '.',
\* '-'): a decimal numeral with at most one point and an optional sign
\* gives its integer part; "inf" and "infinity" parse as a float that int()
\* refuses with OverflowError; "nan" and every other token give ValueError.
int_float(tok) ==
  LET neg == tok # <<>> /\ tok[1] = "-"
      body == IF tok # <<>> /\ tok[1] \in {"-", "+"} THEN Tail(tok) ELSE tok
      dots == {i \in 1..Len(body) : body[i] = "."}
      whole == IF dots = {} THEN body ELSE SubSeq(body, 1, Min(dots) - 1)
      numeral == /\ Cardinality(dots) <= 1
                 /\ isdigit(without_dots(body))
  IN IF numeral
     THEN [kind |-> "int", val |-> IF neg THEN 0 - nat_of(whole) ELSE nat_of(whole)]
     ELSE IF join(body) \in {"inf", "infinity"}
     THEN [kind |-> "OverflowError", val |-> 0]
     ELSE [kind |-> "ValueError", val |-> 0]

\* all(c == habit_type for c in first_part)
all_same(tok) == \A i \in 1..Len(tok) : tok[i] = tok[1]

\* "Cost" in header_name, over the labels a header can hold.
has_Cost(header_name) ==
  header_name \in {"Coffee Cost", "Sugary Cost", "Flour Cost"}

\* A reader that takes every cell for blank.
safe_int_blank(v) == 0

\* The stored number of a cell as bot.py reads it: blank, None and
\* non-numeric text count as 0.
safe_int(v) == IF truthy_nonblank(v) /\ int_ok(v) THEN int(v) ELSE 0

(***************************************************************************)
(* src/bot.py: consumption.                                                *)
(***************************************************************************)
find_or_create_consumption_row_bot(sheet, user_id, date_str, week_number, fail) ==
  LET new_row(headers) ==
        <<str(user_id), date_str>> \o
        [k \in 1..(Len(headers) - 2) |->
           IF \/ has_Cost(headers[k + 2])
              \/ headers[k + 2] \in {"Coffee (x)", "Sugary (y)", "Flour (z)"}
           THEN str(0)
           ELSE IF headers[k + 2] = "Week Number" THEN week_number
           ELSE ""]
      scan(all_data) ==
        LET hits == {i \in 2..Len(all_data) :
                       /\ Len(all_data[i]) >= 2
                       /\ strip(all_data[i][1]) = strip(str(user_id))
                       /\ strip(all_data[i][2]) = date_str}
        IN IF hits # {} THEN Resolved(sheet, Min(hits), 1, FALSE)
           ELSE IF fail \in {2, 3} THEN Resolved(sheet, 0, fail, FALSE)
           ELSE The({IF fail = 4 THEN Resolved(appended, 0, 4, FALSE)
                     ELSE Resolved(appended, Len(get_all_values(appended)), 4, FALSE) :
                       appended \in {append_row(sheet, new_row(row_values(sheet, 1)))}})
  IN IF fail = 1 THEN Resolved(sheet, 0, 1, FALSE)
     ELSE The({scan(all_data) : all_data \in {get_all_values(sheet)}})

record_consumption_bot(sheet, user_id, text0, day, fail) ==
  LET error(sh, n) == Returned(sh, FALSE, "Error recording consumption", n)
      \* The cells are read, added to and written back.
      update(r, sh, count_col_index, cost_col_index, b2, config, count, cost) ==
        LET new_count == safe_int(cell(sh, r.row, count_col_index)) + count
            new_cost == safe_int(cell(sh, r.row, cost_col_index)) + cost
            cost_text == IF cost > 0 THEN " (" \o str(cost) \o " rub)" ELSE ""
            msg == config.name \o " x" \o str(count) \o " recorded" \o cost_text
                     \o "! Total: " \o str(new_count)
            counted(sh3) ==
              IF cost > 0 /\ fail = b2 + 4 THEN error(sh3, b2 + 4)
              ELSE IF cost > 0
              THEN Returned(update_cell(sh3, r.row, cost_col_index, str(new_cost)),
                            TRUE, msg, b2 + 4)
              ELSE Returned(sh3, TRUE, msg, b2 + 3)
        IN IF fail \in {b2 + 1, b2 + 2, b2 + 3} THEN error(sh, fail)
           ELSE The({counted(sh3) :
                       sh3 \in {update_cell(sh, r.row, count_col_index,
                                            str(new_count))}})
      \* The cost column is found in the headers as they now are, or created.
      cost_column(r, sh1, headers1, count_col_index, b1, config, count, cost) ==
        LET found2 == index1(headers1, config.cost_col)
        IN IF found2 # 0
           THEN update(r, sh1, count_col_index, found2, b1, config, count, cost)
           ELSE IF fail = b1 + 1 THEN error(sh1, b1 + 1)
           ELSE The({update(r, sh2, count_col_index, Len(headers1) + 1, b1 + 1,
                            config, count, cost) :
                       sh2 \in {update_cell(sh1, 1, Len(headers1) + 1,
                                            config.cost_col)}})
      \* The count column is found or created; the headers are then re-read.
      count_column(r, headers, config, count, cost) ==
        LET b == r.nops
            found1 == index1(headers, config.count_col)
        IN IF fail = b + 1 THEN error(r.sheet, b + 1)
           ELSE IF found1 # 0
           THEN cost_column(r, r.sheet, headers, found1, b + 1, config, count, cost)
           ELSE IF fail = b + 2 THEN error(r.sheet, b + 2)
           ELSE The({IF fail = b + 3 THEN error(sh1, b + 3)
                     ELSE The({cost_column(r, sh1, headers1, Len(headers) + 1, b + 3,
                                           config, count, cost) :
                                 headers1 \in {row_values(sh1, 1)}}) :
                       sh1 \in {update_cell(r.sheet, 1, Len(headers) + 1,
                                            config.count_col)}})
      resolved(r, config, count, cost) ==
        IF r.row = 0
        THEN Returned(r.sheet, FALSE, "Failed to create consumption row", r.nops)
        ELSE The({count_column(r, headers, config, count, cost) :
                    headers \in {row_values(r.sheet, 1)}})
      parsed(parts) ==
        LET first_part == parts[1]
            habit_type == first_part[1]
            cost_parse == IF Len(parts) > 1 THEN int_float(parts[2])
                          ELSE [kind |-> "int", val |-> 0]
        IN IF habit_type \notin {"x", "y", "z"}
           THEN Returned(sheet, FALSE, "Start with x, y, or z", 0)
           ELSE IF ~all_same(first_part)
           THEN Returned(sheet, FALSE, "Use only '" \o habit_type \o "' characters", 0)
           ELSE The({IF c.kind = "OverflowError" THEN error(sheet, 0)
                     ELSE The({resolved(r, col_map[habit_type], Len(first_part),
                                        IF c.kind = "int" THEN c.val ELSE 0) :
                                 r \in {find_or_create_consumption_row_bot(
                                          sheet, user_id, strftime_date(day),
                                          get_week_number(day), fail)}}) :
                       c \in {cost_parse}})
  IN The({IF parts = <<>>
          THEN Returned(sheet, FALSE, "Invalid format. Use: x, xx, xxx, y, z", 0)
          ELSE parsed(parts) :
            parts \in {split(lower(text_strip(text0)))}})

(***************************************************************************)
(* src/sambo_core.py: consumption.                                         *)
(***************************************************************************)
find_or_create_consumption_row_core(sheet, user_id, date_str, week_number, fail) ==
  LET new_row == <<str(user_id), date_str, str(0), str(0), str(0), str(0),
                   str(0), str(0), week_number, "">>
      scan(all_data) ==
        LET hits == {i \in 2..Len(all_data) :
                       /\ Len(all_data[i]) > 1
                       /\ all_data[i][1] = str(user_id)
                       /\ all_data[i][2] = date_str}
        IN IF hits # {} THEN Resolved(sheet, Min(hits), 1, FALSE)
           ELSE IF fail = 2 THEN Resolved(sheet, 0, 2, TRUE)
           ELSE Resolved(append_row(sheet, new_row), Len(all_data) + 1, 2, FALSE)
  IN IF fail = 1 THEN Resolved(sheet, 0, 1, TRUE)
     ELSE The({scan(all_data) : all_data \in {get_all_values(sheet)}})

record_consumption_core(sheet, user_id, text0, day, fail) ==
  LET \* The cells are read, converted with int() and written back.
      update(r, sh, count_col_index, cost_col_index, b2, config, count, cost) ==
        LET cost_text == IF cost > 0 THEN " (" \o str(cost) \o " rub)" ELSE ""
            add(v_count, v_cost) ==
              LET new_count == (IF v_count = None THEN 0 ELSE int(v_count)) + count
                  new_cost == (IF v_cost = None THEN 0 ELSE int(v_cost)) + cost
              IN IF \/ v_count # None /\ ~int_ok(v_count)
                    \/ v_cost # None /\ ~int_ok(v_cost)
                 THEN Raised(sh, b2 + 2)
                 ELSE IF fail = b2 + 3 THEN Raised(sh, b2 + 3)
                 ELSE The({IF fail = b2 + 4 THEN Raised(sh3, b2 + 4)
                           ELSE Returned(update_cell(sh3, r.row, cost_col_index,
                                                     str(new_cost)),
                                         TRUE,
                                         config.name \o " x" \o str(count)
                                           \o " recorded" \o cost_text
                                           \o "! Total today: " \o str(new_count),
                                         b2 + 4) :
                             sh3 \in {update_cell(sh, r.row, count_col_index,
                                                  str(new_count))}})
        IN IF fail \in {b2 + 1, b2 + 2} THEN Raised(sh, fail)
           ELSE The({add(v_count, v_cost) :
                       v_count \in {cell(sh, r.row, count_col_index)},
                       v_cost \in {cell(sh, r.row, cost_col_index)}})
      \* The cost column is looked up in the headers read before the count
      \* column was created; a new one is put two cells after them.
      cost_column(r, sh1, headers, count_col_index, b1, config, count, cost) ==
        LET found2 == index1(headers, config.cost_col)
        IN IF found2 # 0
           THEN update(r, sh1, count_col_index, found2, b1, config, count, cost)
           ELSE IF fail = b1 + 1 THEN Raised(sh1, b1 + 1)
           ELSE The({update(r, sh2, count_col_index, Len(headers) + 2, b1 + 1,
                            config, count, cost) :
                       sh2 \in {update_cell(sh1, 1, Len(headers) + 2,
                                            config.cost_col)}})
      count_column(r, headers, config, count, cost) ==
        LET b == r.nops
            found1 == index1(headers, config.count_col)
        IN IF fail = b + 1 THEN Raised(r.sheet, b + 1)
           ELSE IF found1 # 0
           THEN cost_column(r, r.sheet, headers, found1, b + 1, config, count, cost)
           ELSE IF fail = b + 2 THEN Raised(r.sheet, b + 2)
           ELSE The({cost_column(r, sh1, headers, Len(headers) + 1, b + 2,
                                 config, count, cost) :
                       sh1 \in {update_cell(r.sheet, 1, Len(headers) + 1,
                                            config.count_col)}})
      resolved(r, config, count, cost) ==
        IF r.exc THEN Raised(r.sheet, r.nops)
        ELSE IF r.row = 0
        THEN Returned(r.sheet, FALSE, "Failed to create consumption row", r.nops)
        ELSE The({count_column(r, headers, config, count, cost) :
                    headers \in {row_values(r.sheet, 1)}})
      parsed(parts) ==
        LET habit_type == parts[1][1]
            cost_parse == IF Len(parts) > 1 /\ isdigit(without_dots(parts[2]))
                          THEN int_float(parts[2])
                          ELSE [kind |-> "int", val |-> 0]
        IN IF habit_type \notin {"x", "y", "z"}
           THEN Returned(sheet, FALSE, "Invalid format. Use: x, xx, xx 150, y 75, z", 0)
           ELSE The({IF c.kind # "int" THEN Raised(sheet, 0)
                     ELSE The({resolved(r, col_map[habit_type], Len(parts[1]), c.val) :
                                 r \in {find_or_create_consumption_row_core(
                                          sheet, user_id, strftime_date(day),
                                          get_week_number(day), fail)}}) :
                       c \in {cost_parse}})
  IN The({IF parts = <<>>
          THEN Returned(sheet, FALSE, "Invalid format. Use: x, xx, xx 150, y 75, z", 0)
          ELSE parsed(parts) :
            parts \in {split(lower(text_strip(text0)))}})

(***************************************************************************)
(* src/bot.py: language.                                                   *)
(***************************************************************************)
find_or_create_language_row_bot(sheet, user_id, date_str, week_number, fail) ==
  LET new_row(headers) ==
        <<str(user_id), date_str>> \o
        [k \in 1..(Len(headers) - 2) |->
           IF headers[k + 2] \in {"Chinese (ch)", "Hebrew (he)", "Tatar (ta)"}
           THEN str(0)
           ELSE IF headers[k + 2] = "Week Number" THEN week_number
           ELSE ""]
      scan(all_data) ==
        LET hits == {i \in 2..Len(all_data) :
                       /\ Len(all_data[i]) >= 2
                       /\ strip(all_data[i][1]) = strip(str(user_id))
                       /\ strip(all_data[i][2]) = date_str}
        IN IF hits # {} THEN Resolved(sheet, Min(hits), 1, FALSE)
           ELSE IF fail \in {2, 3} THEN Resolved(sheet, 0, fail, FALSE)
           ELSE The({IF fail = 4 THEN Resolved(appended, 0, 4, FALSE)
                     ELSE Resolved(appended, Len(get_all_values(appended)), 4, FALSE) :
                       appended \in {append_row(sheet, new_row(row_values(sheet, 1)))}})
  IN IF fail = 1 THEN Resolved(sheet, 0, 1, FALSE)
     ELSE The({scan(all_data) : all_data \in {get_all_values(sheet)}})

record_language_bot(sheet, user_id, lang_code, day, fail) ==
  LET error(sh, n) == Returned(sh, FALSE, "Error recording language", n)
      update(r, sh1, col_index, b1) ==
        IF fail \in {b1 + 1, b1 + 2} THEN error(sh1, fail)
        ELSE The({Returned(update_cell(sh1, r.row, col_index, str(new_sessions)),
                           TRUE,
                           lang_map[lang_code].lang_name \o " session #"
                             \o str(new_sessions) \o " recorded at " \o timestamp,
                           b1 + 2) :
                    new_sessions \in {safe_int(cell(sh1, r.row, col_index)) + 1}})
      column(r, headers) ==
        LET b == r.nops
            hits == {i \in 1..Len(headers) :
                       strip(headers[i]) = lang_map[lang_code].column_name}
        IN IF fail = b + 1 THEN error(r.sheet, b + 1)
           ELSE IF hits # {} THEN update(r, r.sheet, Min(hits), b + 1)
           ELSE IF fail = b + 2 THEN error(r.sheet, b + 2)
           ELSE The({update(r, sh1, Len(headers) + 1, b + 2) :
                       sh1 \in {update_cell(r.sheet, 1, Len(headers) + 1,
                                            lang_map[lang_code].column_name)}})
      resolved(r) ==
        IF r.row = 0
        THEN Returned(r.sheet, FALSE, "Failed to create language row", r.nops)
        ELSE The({column(r, headers) : headers \in {row_values(r.sheet, 1)}})
  IN IF lang_code \notin DOMAIN lang_map
     THEN Returned(sheet, FALSE, "Invalid language code. Use: ch, he, ta", 0)
     ELSE The({resolved(r) :
                 r \in {find_or_create_language_row_bot(
                          sheet, user_id, strftime_date(day),
                          get_week_number(day), fail)}})

(***************************************************************************)
(* src/sambo_core.py: language.                                            *)
(***************************************************************************)
find_or_create_language_row_core(sheet, user_id, date_str, week_number, fail) ==
  LET new_row == <<str(user_id), date_str, str(0), str(0), str(0), week_number, "">>
      scan(all_data) ==
        LET hits == {i \in 2..Len(all_data) :
                       /\ Len(all_data[i]) > 1
                       /\ all_data[i][1] = str(user_id)
                       /\ all_data[i][2] = date_str}
        IN IF hits # {} THEN Resolved(sheet, Min(hits), 1, FALSE)
           ELSE IF fail = 2 THEN Resolved(sheet, 0, 2, TRUE)
           ELSE Resolved(append_row(sheet, new_row), Len(all_data) + 1, 2, FALSE)
  IN IF fail = 1 THEN Resolved(sheet, 0, 1, TRUE)
     ELSE The({scan(all_data) : all_data \in {get_all_values(sheet)}})

record_language_core(sheet, user_id, lang_code, day, fail) ==
  LET update(r, sh1, col_index, b1) ==
        LET add(current_value) ==
              IF current_value # None /\ ~int_ok(current_value)
              THEN Raised(sh1, b1 + 1)
              ELSE IF fail = b1 + 2 THEN Raised(sh1, b1 + 2)
              ELSE The({Returned(update_cell(sh1, r.row, col_index,
                                             str(new_sessions)),
                                 TRUE,
                                 lang_map[lang_code].lang_name \o " session #"
                                   \o str(new_sessions) \o " recorded at "
                                   \o timestamp,
                                 b1 + 2) :
                          new_sessions \in
                            {(IF current_value = None THEN 0
                              ELSE int(current_value)) + 1}})
        IN IF fail = b1 + 1 THEN Raised(sh1, b1 + 1)
           ELSE The({add(current_value) :
                       current_value \in {cell(sh1, r.row, col_index)}})
      column(r, headers) ==
        LET b == r.nops
            found == index1(headers, lang_map[lang_code].column_name)
        IN IF fail = b + 1 THEN Raised(r.sheet, b + 1)
           ELSE IF found # 0 THEN update(r, r.sheet, found, b + 1)
           ELSE IF fail = b + 2 THEN Raised(r.sheet, b + 2)
           ELSE The({update(r, sh1, Len(headers) + 1, b + 2) :
                       sh1 \in {update_cell(r.sheet, 1, Len(headers) + 1,
                                            lang_map[lang_code].column_name)}})
      resolved(r) ==
        IF r.exc THEN Raised(r.sheet, r.nops)
        ELSE IF r.row = 0
        THEN Returned(r.sheet, FALSE, "Failed to create language row", r.nops)
        ELSE The({column(r, headers) : headers \in {row_values(r.sheet, 1)}})
  IN IF lang_code \notin DOMAIN lang_map
     THEN Returned(sheet, FALSE, "Invalid language code. Use: ch, he, ta", 0)
     ELSE The({resolved(r) :
                 r \in {find_or_create_language_row_core(
                          sheet, user_id, strftime_date(day),
                          get_week_number(day), fail)}})


(***************************************************************************)
(* The running implementation's recorders.                                 *)
(***************************************************************************)
record_activity(sheet, user_id, habit_id, day, fail) ==
  IF impl = "bot" THEN record_activity_bot(sheet, user_id, habit_id, day, fail)
  ELSE record_activity_core(sheet, user_id, habit_id, day, fail)

record_consumption(sheet, user_id, text, day, fail) ==
  IF impl = "bot" THEN record_consumption_bot(sheet, user_id, text, day, fail)
  ELSE record_consumption_core(sheet, user_id, text, day, fail)

record_language(sheet, user_id, lang_code, day, fail) ==
  IF impl = "bot" THEN record_language_bot(sheet, user_id, lang_code, day, fail)
  ELSE record_language_core(sheet, user_id, lang_code, day, fail)

(***************************************************************************)
(* Configuration and the inputs of the model.                              *)
(***************************************************************************)
\* os.getenv("TELEGRAM_USER_ID"): the single authorized caller, a string.
TELEGRAM_USER_ID == "42"

Users == {42, 99}

HabitIds == 0..6

LangCodes == {"ch", "he", "ta", "xx"}

ConsumptionTexts ==
  { <<>>,
    <<"x">>,
    <<"x", "x", " ", "1", "5", "0">>,
    <<"y">>,
    <<"z", " ", "7", "5">>,
    <<"x", "y">>,
    <<"x", " ", "a", "b", "c">>,
    <<"x", " ", "1", ".", "2", ".", "3">>,
    <<"x", " ", "i", "n", "f">> }

MessageTexts ==
  { <<"c", "h">>,
    <<" ", "X", "x", " ", "1", "5", "0">>,
    <<"h", "i">> }

\* The header rows a sheet is set up with.  Layout "full" has every column
\* the recorders use, in the order sambo_core.py lays its rows out;
\* "minimal" has the three columns every row needs; "used" is "full" with
\* data rows already in it; "shuffled" is "full" with the Date column put
\* before the User ID column; "empty" is a worksheet without any row.
ActivityHeader ==
  CASE layout \in {"full", "used"} ->
         <<"User ID", "Date", "Prayer", "Qi Gong", "Ball", "Run/Stretch",
           "Strength/Stretch", "Week Number", "Goals">>
    [] layout = "shuffled" ->
         <<"Date", "User ID", "Prayer", "Qi Gong", "Ball", "Run/Stretch",
           "Strength/Stretch", "Week Number", "Goals">>
    [] OTHER -> <<"User ID", "Date", "Week Number">>

ConsumptionHeader ==
  CASE layout \in {"full", "used"} ->
         <<"User ID", "Date", "Coffee (x)", "Coffee Cost", "Sugary (y)",
           "Sugary Cost", "Flour (z)", "Flour Cost", "Week Number", "Notes">>
    [] layout = "shuffled" ->
         <<"Date", "User ID", "Coffee (x)", "Coffee Cost", "Sugary (y)",
           "Sugary Cost", "Flour (z)", "Flour Cost", "Week Number", "Notes">>
    [] OTHER -> <<"User ID", "Date", "Week Number">>

LanguageHeader ==
  CASE layout \in {"full", "used"} ->
         <<"User ID", "Date", "Chinese (ch)", "Hebrew (he)", "Tatar (ta)",
           "Week Number", "Notes">>
    [] layout = "shuffled" ->
         <<"Date", "User ID", "Chinese (ch)", "Hebrew (he)", "Tatar (ta)",
           "Week Number", "Notes">>
    [] OTHER -> <<"User ID", "Date", "Week Number">>

(***************************************************************************)
(* History kept for stating the properties: none of it is read by the      *)
(* recorders.                                                              *)
(***************************************************************************)
\* The spec's valid consumption text, ^(x+|y+|z+)( \d+)?$.
ValidConsumptionText(text) ==
  LET parts == split(text)
  IN /\ Len(parts) \in {1, 2}
     /\ parts[1][1] \in {"x", "y", "z"}
     /\ all_same(parts[1])
     /\ Len(parts) = 1 => Len(text) = Len(parts[1])
     /\ Len(parts) = 2 => /\ isdigit(parts[2])
                          /\ Len(text) = Len(parts[1]) + 1 + Len(parts[2])

RunLength(text) == Len(split(text)[1])

CostOf(text) == IF Len(split(text)) = 2 THEN nat_of(split(text)[2]) ELSE 0

Invalid == <<0, 0, "invalid">>

NoCall ==
  [via |-> "none", op |-> "none", user |-> 0, habit |-> 0, text |-> <<>>,
   code |-> "", ok |-> FALSE, msg |-> "", raised |-> FALSE, invoked |-> FALSE,
   nops |-> 0, hit |-> FALSE, first |-> FALSE, row |-> 0]

Outcome(via, op, user, habit, text, code, res, fail, first) ==
  [via |-> via, op |-> op, user |-> user, habit |-> habit, text |-> text,
   code |-> code, ok |-> res.ok, msg |-> res.msg, raised |-> res.raised,
   invoked |-> TRUE, nops |-> res.nops, hit |-> fail # 0, first |-> first,
   row |-> 0]

Reply(user, text, msg) ==
  [NoCall EXCEPT !.via = "handler", !.user = user, !.text = text, !.msg = msg]

Orphaned(name, user, fail, before, after) ==
  IF fail # 0 /\ Len(after) = Len(before) + 1
  THEN hist.orphan \cup {<<name, user, today>>} ELSE hist.orphan

HistActivity(user, habit_id, res, fail, before) ==
  [hist EXCEPT
     !.faults = IF fail = 0 THEN @ ELSE @ + 1,
     !.tried = IF habit_id \in 1..5 THEN @ \cup {<<user, habit_id>>} ELSE @,
     !.orphan = Orphaned("activity", user, fail, before, res.sheet)]

HistConsumption(user, text, res, fail, before) ==
  [hist EXCEPT
     !.faults = IF fail = 0 THEN @ ELSE @ + 1,
     !.touched_c = @ \cup {IF ValidConsumptionText(text)
                           THEN <<user, today, text[1]>> ELSE Invalid},
     !.sum_count = IF ValidConsumptionText(text) THEN @ + RunLength(text) ELSE @,
     !.sum_cost = IF ValidConsumptionText(text) THEN @ + CostOf(text) ELSE @,
     !.orphan = Orphaned("consumption", user, fail, before, res.sheet)]

HistLanguage(user, lang_code, res, fail, before) ==
  [hist EXCEPT
     !.faults = IF fail = 0 THEN @ ELSE @ + 1,
     !.touched_l = @ \cup {IF lang_code \in DOMAIN lang_map
                           THEN <<user, today, lang_code>> ELSE Invalid},
     !.sum_sessions = IF lang_code \in DOMAIN lang_map THEN @ + 1 ELSE @,
     !.orphan = Orphaned("language", user, fail, before, res.sheet)]

\* The store operations of a call that may fail: any one of those the call
\* makes, while the behaviour's budget of store faults lasts.
Fails(nops) == IF hist.faults < MaxFaults THEN 0..nops ELSE {0}

(***************************************************************************)
(* Recorder invocations under way.  An invocation holds the local          *)
(* variables of the recorder and of its row resolver, named as in the      *)
(* code, and pc, the store operation it makes next.                        *)
(***************************************************************************)
Procs == {1, 2}

Idle ==
  [pc |-> "idle", op |-> "none", key |-> "", count |-> 0, cost |-> 0,
   n_rows |-> 0, new_row |-> <<>>, headers |-> <<>>, row_num |-> 0,
   count_col_index |-> 0, cost_col_index |-> 0, v_count |-> "",
   current_count |-> 0, current_cost |-> 0, ok |-> FALSE, msg |-> "",
   raised |-> FALSE, has_read |-> FALSE, has_written |-> FALSE,
   stale |-> FALSE]

(***************************************************************************)
(* Initial state: each sheet holds its header row and no data row.  The    *)
(* library versions differ only on a worksheet without any row, which no   *)
(* sheet that starts with a header row ever is.                            *)
(***************************************************************************)
Init ==
  /\ impl \in {"bot", "core"}
  /\ layout \in {"full", "minimal"}
  /\ gspread = 6
  /\ activity_sheet = <<ActivityHeader>>
  /\ consumption_sheet = <<ConsumptionHeader>>
  /\ language_sheet = <<LanguageHeader>>
  /\ today = 0
  /\ calls = 0
  /\ last = NoCall
  /\ hist = [faults |-> 0, tried |-> {}, touched_c |-> {}, touched_l |-> {},
             sum_count |-> 0, sum_cost |-> 0, sum_sessions |-> 0, orphan |-> {}]
  /\ procs = [p \in Procs |-> Idle]

(***************************************************************************)
(* One call of a recorder: the sheet it leaves, its outcome, the history.  *)
(***************************************************************************)
CallActivity(via, u, h, f) ==
  \E res \in {record_activity(activity_sheet, u, h, today, f)} :
    /\ calls' = calls + 1
    /\ activity_sheet' = res.sheet
    /\ last' = Outcome(via, "activity", u, h, <<>>, "", res, f,
                       <<u, h>> \notin hist.tried)
    /\ hist' = HistActivity(u, h, res, f, activity_sheet)
    /\ UNCHANGED <<impl, layout, gspread, procs, consumption_sheet, language_sheet, today>>

CallConsumption(via, u, t, f) ==
  \E res \in {record_consumption(consumption_sheet, u, t, today, f)} :
    /\ calls' = calls + 1
    /\ consumption_sheet' = res.sheet
    /\ last' = Outcome(via, "consumption", u, 0, t, "", res, f, FALSE)
    /\ hist' = HistConsumption(u, t, res, f, consumption_sheet)
    /\ UNCHANGED <<impl, layout, gspread, procs, activity_sheet, language_sheet, today>>

CallLanguage(via, u, t, c, f) ==
  \E res \in {record_language(language_sheet, u, c, today, f)} :
    /\ calls' = calls + 1
    /\ language_sheet' = res.sheet
    /\ last' = Outcome(via, "language", u, 0, t, c, res, f, FALSE)
    /\ hist' = HistLanguage(u, c, res, f, language_sheet)
    /\ UNCHANGED <<impl, layout, gspread, procs, activity_sheet, consumption_sheet, today>>

(***************************************************************************)
(* Direct calls of the recorders, any one store operation of which may     *)
(* fail.                                                                   *)
(***************************************************************************)
RecordActivity ==
  /\ calls < MaxCalls
  /\ \E u \in Users, h \in HabitIds :
       \E n \in {record_activity(activity_sheet, u, h, today, 0).nops} :
         \E f \in Fails(n) : CallActivity("direct", u, h, f)

RecordConsumption ==
  /\ calls < MaxCalls
  /\ \E u \in Users, t \in ConsumptionTexts :
       \E n \in {record_consumption(consumption_sheet, u, t, today, 0).nops} :
         \E f \in Fails(n) : CallConsumption("direct", u, t, f)

RecordLanguage ==
  /\ calls < MaxCalls
  /\ \E u \in Users, c \in LangCodes :
       \E n \in {record_language(language_sheet, u, c, today, 0).nops} :
         \E f \in Fails(n) : CallLanguage("direct", u, <<>>, c, f)

(***************************************************************************)
(* src/bot.py: the Telegram handlers.  The reply is last.msg.              *)
(***************************************************************************)
Denial == "Sorry, this bot is for authorized users only."

Unknown == "Unknown command. Type /help for instructions."

\* A dispatcher that routes a text without asking who sent it.
handle_message_route_open(user_id, t0) ==
  The({IF join(text) \in {"ch", "he", "ta"}
       THEN [to |-> "language", code |-> join(text)]
       ELSE IF text # <<>> /\ text[1] \in {"x", "y", "z"}
       THEN [to |-> "consumption", text |-> text]
       ELSE [to |-> "unknown"] :
         text \in {lower(text_strip(t0))}})

\* The recorder call handle_message makes for a text, as a record, or the
\* reply it gives without calling one.
handle_message_route(user_id, t0) ==
  IF user_id # int(TELEGRAM_USER_ID) THEN [to |-> "denied"]
  ELSE The({IF join(text) \in {"ch", "he", "ta"}
            THEN [to |-> "language", code |-> join(text)]
            ELSE IF text # <<>> /\ text[1] \in {"x", "y", "z"}
            THEN [to |-> "consumption", text |-> text]
            ELSE [to |-> "unknown"] :
              text \in {lower(text_strip(t0))}})

handle_activity_route(user_id, habit_id) ==
  IF user_id # int(TELEGRAM_USER_ID) THEN [to |-> "denied"]
  ELSE [to |-> "activity", habit |-> habit_id]

\* The reply of a handler that called no recorder.
Replied(u, t0, h, msg) ==
  /\ calls' = calls + 1
  /\ last' = [Reply(u, t0, msg) EXCEPT !.habit = h]
  /\ UNCHANGED <<impl, layout, gspread, procs, activity_sheet, consumption_sheet,
                 language_sheet, today, hist>>

handle_message ==
  /\ impl = "bot"
  /\ calls < MaxCalls
  /\ \E u \in Users, t0 \in MessageTexts :
       \E route \in {handle_message_route(u, t0)} :
         CASE route.to = "denied" -> Replied(u, t0, 0, Denial)
           [] route.to = "language" ->
                \E n \in {record_language(language_sheet, u, route.code,
                                          today, 0).nops} :
                  \E f \in Fails(n) :
                    CallLanguage("handler", u, t0, route.code, f)
           [] route.to = "consumption" ->
                \E n \in {record_consumption(consumption_sheet, u, route.text,
                                             today, 0).nops} :
                  \E f \in Fails(n) :
                    CallConsumption("handler", u, route.text, f)
           [] route.to = "unknown" -> Replied(u, t0, 0, Unknown)

\* habit_1 .. habit_5
handle_activity ==
  /\ impl = "bot"
  /\ calls < MaxCalls
  /\ \E u \in Users, habit_id \in 1..5 :
       \E route \in {handle_activity_route(u, habit_id)} :
         CASE route.to = "denied" -> Replied(u, <<>>, habit_id, Denial)
           [] route.to = "activity" ->
                \E n \in {record_activity(activity_sheet, u, route.habit,
                                          today, 0).nops} :
                  \E f \in Fails(n) :
                    CallActivity("handler", u, route.habit, f)

(***************************************************************************)
(* Midnight in the fixed UTC+3 offset: the next calendar day begins.       *)
(***************************************************************************)
NextDay ==
  /\ today < MaxDay
  /\ today' = today + 1
  /\ hist' = [hist EXCEPT !.tried = {}]
  /\ UNCHANGED <<impl, layout, gspread, procs, activity_sheet, consumption_sheet, language_sheet,
                 calls, last>>

Next ==
  \/ RecordActivity
  \/ RecordConsumption
  \/ RecordLanguage
  \/ handle_message
  \/ handle_activity
  \/ NextDay

Spec == Init /\ [][Next]_vars

(***************************************************************************)
(* Days of habits: the activity recorder alone, called by the authorized   *)
(* caller without store faults, long enough to record all five habits.     *)
(***************************************************************************)
RecordHabit ==
  /\ calls < MaxHabitCalls
  /\ \E h \in 1..5 : CallActivity("direct", int(TELEGRAM_USER_ID), h, 0)

HabitNext == RecordHabit \/ NextDay

HabitSpec == Init /\ [][HabitNext]_vars

(***************************************************************************)
(* Counting: the consumption and language recorders alone, called by the   *)
(* authorized caller without store faults, with texts and codes they       *)
(* accept.                                                                 *)
(***************************************************************************)
CounterTexts ==
  { <<"x">>,
    <<"x", "x", " ", "1", "5", "0">>,
    <<"y">>,
    <<"z", " ", "7", "5">> }

RecordCount ==
  /\ calls < MaxCounterCalls
  /\ \E t \in CounterTexts :
       CallConsumption("direct", int(TELEGRAM_USER_ID), t, 0)

RecordSession ==
  /\ calls < MaxCounterCalls
  /\ \E c \in DOMAIN lang_map :
       CallLanguage("direct", int(TELEGRAM_USER_ID), <<>>, c, 0)

CounterNext == RecordCount \/ RecordSession \/ NextDay

CounterSpec == Init /\ [][CounterNext]_vars

(***************************************************************************)
(* Sheets as they are found.  The worksheets are set up and edited by      *)
(* hand outside the program, so a run may start from a header in another   *)
(* column order, from rows typed with surrounding blanks or left short,    *)
(* from a cell holding text where a number belongs, or from a worksheet    *)
(* without any row.  The row resolvers are called on such sheets directly  *)
(* and through the recorders, without store faults.                        *)
(***************************************************************************)
MaxStoreCalls == 2

Layouts == {"full", "minimal", "used", "shuffled", "empty"}

\* The data rows of layout "used": a short row of caller 99 for day 0 (in
\* the Language sheet its Chinese cell holds the word "two"), and a row of
\* caller 42 for day 0 typed with blanks around the id and the date.
UsedRows(name) ==
  CASE name = "activity" ->
         << <<"99", "2024-01-08">>,
            <<" 42", " 2024-01-08 ", "", "", "", "", "", "2024-01-08", "">> >>
    [] name = "consumption" ->
         << <<"99", "2024-01-08">>,
            <<" 42", " 2024-01-08 ", "1", "0", "0", "0", "0", "0",
              "2024-01-08", "">> >>
    [] name = "language" ->
         << <<"99", "2024-01-08", "two">>,
            <<" 42", " 2024-01-08 ", "1", "0", "0", "2024-01-08", "">> >>

FoundSheet(name, header) ==
  CASE layout = "empty" -> <<>>
    [] layout = "used" -> <<header>> \o UsedRows(name)
    [] OTHER -> <<header>>

StoreInit ==
  /\ impl \in {"bot", "core"}
  /\ layout \in Layouts
  /\ gspread \in {5, 6}
  /\ activity_sheet = FoundSheet("activity", ActivityHeader)
  /\ consumption_sheet = FoundSheet("consumption", ConsumptionHeader)
  /\ language_sheet = FoundSheet("language", LanguageHeader)
  /\ today = 0
  /\ calls = 0
  /\ last = NoCall
  /\ hist = [faults |-> 0, tried |-> {}, touched_c |-> {}, touched_l |-> {},
             sum_count |-> 0, sum_cost |-> 0, sum_sessions |-> 0, orphan |-> {}]
  /\ procs = [p \in Procs |-> Idle]

\* The running implementation's row resolvers.
find_or_create_activity_row(sheet, user_id, date_str, week_number, fail) ==
  IF impl = "bot"
  THEN find_or_create_activity_row_bot(sheet, user_id, date_str, week_number, fail)
  ELSE find_or_create_activity_row_core(sheet, user_id, date_str, week_number, fail)

find_or_create_consumption_row(sheet, user_id, date_str, week_number, fail) ==
  IF impl = "bot"
  THEN find_or_create_consumption_row_bot(sheet, user_id, date_str, week_number, fail)
  ELSE find_or_create_consumption_row_core(sheet, user_id, date_str, week_number, fail)

find_or_create_language_row(sheet, user_id, date_str, week_number, fail) ==
  IF impl = "bot"
  THEN find_or_create_language_row_bot(sheet, user_id, date_str, week_number, fail)
  ELSE find_or_create_language_row_core(sheet, user_id, date_str, week_number, fail)

\* The outcome of a direct call of a row resolver: the row number it
\* returned (0 for None) and whether an exception escaped it.
Found(op, u, r) ==
  [NoCall EXCEPT !.via = "resolver", !.op = op, !.user = u, !.row = r.row,
                 !.raised = r.exc, !.nops = r.nops]

ResolveActivity ==
  /\ calls < MaxStoreCalls
  /\ \E u \in Users :
       \E r \in {find_or_create_activity_row(
                   activity_sheet, u, strftime_date(today),
                   get_week_number(today), 0)} :
         /\ calls' = calls + 1
         /\ activity_sheet' = r.sheet
         /\ last' = Found("activity", u, r)
         /\ UNCHANGED <<impl, layout, gspread, procs, consumption_sheet,
                        language_sheet, today, hist>>

ResolveConsumption ==
  /\ calls < MaxStoreCalls
  /\ \E u \in Users :
       \E r \in {find_or_create_consumption_row(
                   consumption_sheet, u, strftime_date(today),
                   get_week_number(today), 0)} :
         /\ calls' = calls + 1
         /\ consumption_sheet' = r.sheet
         /\ last' = Found("consumption", u, r)
         /\ UNCHANGED <<impl, layout, gspread, procs, activity_sheet,
                        language_sheet, today, hist>>

ResolveLanguage ==
  /\ calls < MaxStoreCalls
  /\ \E u \in Users :
       \E r \in {find_or_create_language_row(
                   language_sheet, u, strftime_date(today),
                   get_week_number(today), 0)} :
         /\ calls' = calls + 1
         /\ language_sheet' = r.sheet
         /\ last' = Found("language", u, r)
         /\ UNCHANGED <<impl, layout, gspread, procs, activity_sheet,
                        consumption_sheet, today, hist>>

\* Recorder calls with inputs the recorders accept.
StoreActivity ==
  /\ calls < MaxStoreCalls
  /\ \E u \in Users, h \in 1..5 : CallActivity("direct", u, h, 0)

StoreConsumption ==
  /\ calls < MaxStoreCalls
  /\ \E u \in Users, t \in CounterTexts : CallConsumption("direct", u, t, 0)

StoreLanguage ==
  /\ calls < MaxStoreCalls
  /\ \E u \in Users, c \in DOMAIN lang_map :
       CallLanguage("direct", u, <<>>, c, 0)

StoreNext ==
  \/ ResolveActivity
  \/ ResolveConsumption
  \/ ResolveLanguage
  \/ StoreActivity
  \/ StoreConsumption
  \/ StoreLanguage
  \/ NextDay

StoreSpec == StoreInit /\ [][StoreNext]_vars

(***************************************************************************)
(* The recorders one store operation at a time.  A recorder is a plain     *)
(* sequence of blocking store calls and takes no lock, so when the program *)
(* runs twice against the same spreadsheet (two instances of bot.py, or    *)
(* bot.py next to a deployment of sambo_core.py's class) the store         *)
(* operations of two invocations reach the sheet in any order.  Two        *)
(* invocations of record_consumption or record_language by the authorized  *)
(* caller on the same day are followed here; each step is one store        *)
(* operation of one invocation together with the local computation that    *)
(* follows it.                                                             *)
(***************************************************************************)
RaceInputs ==
  { [op |-> "language", code |-> "ch", text |-> <<>>],
    [op |-> "consumption", code |-> "", text |-> <<"x">>],
    [op |-> "consumption", code |-> "",
     text |-> <<"x", "x", " ", "1", "5", "0">>] }

RaceSheet(op) == IF op = "language" THEN language_sheet ELSE consumption_sheet

\* The labels of the columns an invocation writes.
count_label(s) ==
  IF s.op = "language" THEN lang_map[s.key].column_name
  ELSE col_map[s.key].count_col

cost_label(s) == col_map[s.key].cost_col

\* The rows the scan of a row resolver accepts, in all_data.
scan_hits(all_data, user_id, date_str) ==
  IF impl = "bot"
  THEN {i \in 2..Len(all_data) :
          /\ Len(all_data[i]) >= 2
          /\ strip(all_data[i][1]) = strip(str(user_id))
          /\ strip(all_data[i][2]) = date_str}
  ELSE {i \in 2..Len(all_data) :
          /\ Len(all_data[i]) > 1
          /\ all_data[i][1] = str(user_id)
          /\ all_data[i][2] = date_str}

\* new_row of the row resolvers of the Consumption and Language sheets.
new_row_of(op, headers, user_id, date_str, week_number) ==
  IF impl = "bot"
  THEN <<str(user_id), date_str>> \o
       [k \in 1..(Len(headers) - 2) |->
          IF \/ op = "consumption" /\ has_Cost(headers[k + 2])
             \/ op = "consumption"
                  /\ headers[k + 2] \in {"Coffee (x)", "Sugary (y)", "Flour (z)"}
             \/ op = "language"
                  /\ headers[k + 2] \in {"Chinese (ch)", "Hebrew (he)", "Tatar (ta)"}
          THEN str(0)
          ELSE IF headers[k + 2] = "Week Number" THEN week_number
          ELSE ""]
  ELSE IF op = "consumption"
  THEN <<str(user_id), date_str, str(0), str(0), str(0), str(0), str(0),
         str(0), week_number, "">>
  ELSE <<str(user_id), date_str, str(0), str(0), str(0), week_number, "">>

\* The column of a label in the headers as a recorder looks it up.
find_column(op, headers, label) ==
  IF impl = "bot" /\ op = "language"
  THEN LET hits == {i \in 1..Len(headers) : strip(headers[i]) = label}
       IN IF hits = {} THEN 0 ELSE Min(hits)
  ELSE index1(headers, label)

\* A writer that adds to the cell as it is when it writes.
new_count_reread(sheet, row_num, col_index, current_count, count) ==
  safe_int(cell(sheet, row_num, col_index)) + count

\* new_count = current_count + count, new_sessions = current_sessions + 1:
\* the number written is computed from the number read earlier.
new_count(sheet, row_num, col_index, current_count, count) ==
  current_count + count

\* The reply of a recorder that wrote new as its count.
race_msg(s, new) ==
  IF s.op = "language"
  THEN lang_map[s.key].lang_name \o " session #" \o str(new)
         \o " recorded at " \o timestamp
  ELSE col_map[s.key].name \o " x" \o str(s.count) \o " recorded"
         \o (IF s.cost > 0 THEN " (" \o str(s.cost) \o " rub)" ELSE "")
         \o (IF impl = "bot" THEN "! Total: " ELSE "! Total today: ")
         \o str(new)

\* One step of invocation p: its locals become s, its sheet becomes sh.
RaceStep(p, s, sh) ==
  /\ procs' = [procs EXCEPT ![p] = s]
  /\ IF s.op = "language"
     THEN language_sheet' = sh /\ UNCHANGED consumption_sheet
     ELSE consumption_sheet' = sh /\ UNCHANGED language_sheet
  /\ UNCHANGED <<impl, layout, gspread, activity_sheet, today, calls, last,
                 hist>>

\* The recorder is entered: the input is checked and parsed.
race_begin(p) ==
  /\ procs[p].pc = "idle"
  /\ \E inp \in RaceInputs :
       LET parts == split(lower(text_strip(inp.text)))
       IN RaceStep(p,
            [Idle EXCEPT
               !.pc = "get_all_values",
               !.op = inp.op,
               !.key = IF inp.op = "language" THEN inp.code ELSE parts[1][1],
               !.count = IF inp.op = "language" THEN 1 ELSE Len(parts[1]),
               !.cost = IF inp.op = "consumption" /\ Len(parts) > 1
                        THEN int_float(parts[2]).val ELSE 0],
            RaceSheet(inp.op))

\* get_all_values(): the scan of the row resolver, and in bot.py the count
\* of the rows after append_row.
race_get_all_values(p) ==
  LET s == procs[p]
      sheet == RaceSheet(s.op)
      all_data == get_all_values(sheet)
      hits == scan_hits(all_data, int(TELEGRAM_USER_ID), strftime_date(today))
  IN /\ s.pc \in {"get_all_values", "reread"}
     /\ RaceStep(p,
          IF s.pc = "reread"
          THEN [s EXCEPT !.row_num = Len(all_data), !.pc = "row_values"]
          ELSE IF hits # {}
          THEN [s EXCEPT !.row_num = Min(hits), !.pc = "row_values"]
          ELSE IF impl = "bot"
          THEN [s EXCEPT !.pc = "row_values_new"]
          ELSE [s EXCEPT !.n_rows = Len(all_data),
                         !.new_row = new_row_of(s.op, <<>>, int(TELEGRAM_USER_ID),
                                             strftime_date(today),
                                             get_week_number(today)),
                         !.pc = "append_row"],
          sheet)

\* append_row(new_row)
race_append_row(p) ==
  LET s == procs[p]
      sheet == RaceSheet(s.op)
  IN /\ s.pc = "append_row"
     /\ RaceStep(p,
          IF impl = "bot" THEN [s EXCEPT !.pc = "reread"]
          ELSE [s EXCEPT !.row_num = s.n_rows + 1, !.pc = "row_values"],
          append_row(sheet, s.new_row))

\* row_values(1): the headers a new row is built from (bot.py), the headers
\* the columns are looked up in, and in bot.py the headers read again
\* after the count column was created.
race_row_values(p) ==
  LET s == procs[p]
      sheet == RaceSheet(s.op)
      headers == row_values(sheet, 1)
      found1 == find_column(s.op, headers, count_label(s))
      found2 == find_column(s.op, headers, cost_label(s))
      cost_looked_up(t) ==
        IF found2 # 0
        THEN [t EXCEPT !.cost_col_index = found2, !.pc = "cell_count"]
        ELSE [t EXCEPT !.cost_col_index = Len(headers) + 1, !.pc = "create_cost"]
  IN /\ s.pc \in {"row_values_new", "row_values", "reread_headers"}
     /\ RaceStep(p,
          CASE s.pc = "row_values_new" ->
                 [s EXCEPT !.new_row = new_row_of(s.op, headers,
                                               int(TELEGRAM_USER_ID),
                                               strftime_date(today),
                                               get_week_number(today)),
                           !.pc = "append_row"]
            [] s.pc = "reread_headers" -> cost_looked_up(s)
            [] s.pc = "row_values" /\ found1 = 0 ->
                 [s EXCEPT !.headers = headers,
                           !.count_col_index = Len(headers) + 1,
                           !.pc = "create_count"]
            [] s.pc = "row_values" /\ found1 # 0 /\ s.op = "language" ->
                 [s EXCEPT !.count_col_index = found1, !.pc = "cell_count"]
            [] s.pc = "row_values" /\ found1 # 0 /\ s.op = "consumption" ->
                 IF impl = "bot" \/ found2 # 0
                 THEN cost_looked_up([s EXCEPT !.count_col_index = found1])
                 ELSE [s EXCEPT !.count_col_index = found1,
                                !.cost_col_index = Len(headers) + 2,
                                !.pc = "create_cost"],
          sheet)

\* update_cell(1, ..., label): a column is created.
race_create_column(p) ==
  LET s == procs[p]
      sheet == RaceSheet(s.op)
      found2 == index1(s.headers, cost_label(s))
  IN /\ s.pc \in {"create_count", "create_cost"}
     /\ IF s.pc = "create_cost"
        THEN RaceStep(p, [s EXCEPT !.pc = "cell_count"],
                      update_cell(sheet, 1, s.cost_col_index, cost_label(s)))
        ELSE RaceStep(p,
               IF s.op = "language" THEN [s EXCEPT !.pc = "cell_count"]
               ELSE IF impl = "bot" THEN [s EXCEPT !.pc = "reread_headers"]
               ELSE IF found2 # 0
               THEN [s EXCEPT !.cost_col_index = found2, !.pc = "cell_count"]
               ELSE [s EXCEPT !.cost_col_index = Len(s.headers) + 2,
                              !.pc = "create_cost"],
               update_cell(sheet, 1, s.count_col_index, count_label(s)))

\* cell(row_num, col).value: the current count, then for consumption the
\* current cost, and the conversion of what was read.
race_cell(p) ==
  LET s == procs[p]
      sheet == RaceSheet(s.op)
      v == cell(sheet, s.row_num,
                IF s.pc = "cell_cost" THEN s.cost_col_index
                ELSE s.count_col_index)
      v_count == IF s.pc = "cell_cost" THEN s.v_count ELSE v
      v_cost == IF s.pc = "cell_cost" THEN v ELSE None
      converted ==
        IF impl = "bot"
        THEN [s EXCEPT !.current_count = safe_int(v_count),
                       !.current_cost = safe_int(v_cost),
                       !.has_read = TRUE, !.pc = "update_count"]
        ELSE IF \/ v_count # None /\ ~int_ok(v_count)
                \/ v_cost # None /\ ~int_ok(v_cost)
        THEN [s EXCEPT !.raised = TRUE, !.has_read = TRUE, !.pc = "done"]
        ELSE [s EXCEPT !.current_count = IF v_count = None THEN 0
                                         ELSE int(v_count),
                       !.current_cost = IF v_cost = None THEN 0
                                        ELSE int(v_cost),
                       !.has_read = TRUE, !.pc = "update_count"]
  IN /\ s.pc \in {"cell_count", "cell_cost"}
     /\ RaceStep(p,
          IF s.pc = "cell_count" /\ s.op = "consumption"
          THEN [s EXCEPT !.v_count = v, !.has_read = TRUE, !.pc = "cell_cost"]
          ELSE converted,
          sheet)

\* update_cell(row_num, col, number): the count is written, then the cost.
race_update_cell(p) ==
  LET s == procs[p]
      sheet == RaceSheet(s.op)
      other == procs[CHOOSE q \in Procs : q # p]
      new == new_count(sheet, s.row_num, s.count_col_index, s.current_count,
                       s.count)
      returned(t) == [t EXCEPT !.ok = TRUE, !.msg = race_msg(s, new),
                               !.pc = "done"]
      written == [s EXCEPT !.has_written = TRUE,
                           !.stale = IF other.has_written THEN other.stale
                                     ELSE other.has_read]
  IN /\ s.pc \in {"update_count", "update_cost"}
     /\ IF s.pc = "update_cost"
        THEN RaceStep(p,
               [s EXCEPT !.ok = TRUE, !.pc = "done"],
               update_cell(sheet, s.row_num, s.cost_col_index,
                           str(s.current_cost + s.cost)))
        ELSE RaceStep(p,
               IF s.op = "consumption" /\ (impl = "core" \/ s.cost > 0)
               THEN [written EXCEPT !.msg = race_msg(s, new), !.pc = "update_cost"]
               ELSE returned(written),
               update_cell(sheet, s.row_num, s.count_col_index, str(new)))

RaceBegin == \E p \in Procs : race_begin(p)

RaceGetAllValues == \E p \in Procs : race_get_all_values(p)

RaceAppendRow == \E p \in Procs : race_append_row(p)

RaceRowValues == \E p \in Procs : race_row_values(p)

RaceCreateColumn == \E p \in Procs : race_create_column(p)

RaceCell == \E p \in Procs : race_cell(p)

RaceUpdateCell == \E p \in Procs : race_update_cell(p)

RaceNext ==
  \/ RaceBegin
  \/ RaceGetAllValues
  \/ RaceAppendRow
  \/ RaceRowValues
  \/ RaceCreateColumn
  \/ RaceCell
  \/ RaceUpdateCell

RaceSpec == Init /\ [][RaceNext]_vars

(***************************************************************************)
(* What the properties read off the sheets.                                *)
(***************************************************************************)
\* The data rows of a sheet that belong to a caller and a day.
RowsOf(sheet, u, d) ==
  {i \in 2..Len(sheet) : /\ Len(sheet[i]) >= 2
                         /\ sheet[i][1] = str(u)
                         /\ sheet[i][2] = strftime_date(d)}

\* The cell of a caller's day under a header label; "" when the row or the
\* label is missing.
CellUnder(sheet, u, d, label) ==
  LET rows == RowsOf(sheet, u, d)
      c == index1(sheet[1], label)
  IN IF rows = {} \/ c = 0 THEN "" ELSE cell(sheet, Min(rows), c)

\* The number a cell stores: 0 for a blank cell, -1 for a missing row or
\* label and for text that is no number.
StoredNumber(sheet, u, d, label) ==
  LET rows == RowsOf(sheet, u, d)
      c == index1(sheet[1], label)
      v == IF rows = {} \/ c = 0 THEN "absent" ELSE cell(sheet, Min(rows), c)
  IN IF v = "" THEN 0 ELSE IF int_ok(v) THEN int(v) ELSE -1

\* All the calls recorded in S were valid and for one (caller, date, metric).
OneMetric(S) == S # {} /\ Invalid \notin S /\ \A a, b \in S : a = b

\* The non-blank labels of the header row are pairwise distinct.
HeaderUnique(sheet) ==
  \A i, j \in 1..Len(sheet[1]) :
    (i # j /\ sheet[1][i] # "") => sheet[1][i] # sheet[1][j]

\* The step was a recorder call of the operation op.
Called(op) == calls' = calls + 1 /\ last'.invoked /\ last'.op = op

\* The input of the call just made is one the recorders are meant to accept.
ValidInput ==
  CASE last'.op = "activity" -> last'.habit \in 1..5
    [] last'.op = "language" -> last'.code \in {"ch", "he", "ta"}
    [] last'.op = "consumption" -> ValidConsumptionText(last'.text)
    [] OTHER -> FALSE

\* What a recorder call may do to the rows of its sheet.
RowStep(op, before, after) ==
  /\ \A u \in Users, d \in 0..MaxDay :
       /\ Cardinality(RowsOf(after, u, d)) <= 1
       /\ RowsOf(before, u, d) # {} => RowsOf(after, u, d) = RowsOf(before, u, d)
  /\ Len(after) \in {Len(before), Len(before) + 1}
  /\ Len(after) = Len(before) + 1 =>
       /\ Called(op)
       /\ RowsOf(before, last'.user, today) = {}
       /\ RowsOf(after, last'.user, today) = {Len(after)}
  /\ (Called(op) /\ (last'.ok \/ (ValidInput /\ ~last'.hit))) =>
       Cardinality(RowsOf(after, last'.user, today)) = 1

(***************************************************************************)
(* C1.  Each sheet holds at most one data row per (caller, date): a call   *)
(* for a pair that has a row leaves the rows as they are, a call appends   *)
(* at most one row and only for a pair that had none, and after a call     *)
(* that returned ok, or had an acceptable input and met no store fault,    *)
(* the pair has exactly one row, also when an earlier call for the pair    *)
(* failed after its row was appended.                                      *)
(***************************************************************************)
C1_OneRowPerCallerAndDate ==
  [][/\ RowStep("activity", activity_sheet, activity_sheet')
     /\ RowStep("consumption", consumption_sheet, consumption_sheet')
     /\ RowStep("language", language_sheet, language_sheet')]_vars

\* A call failed after its row was appended, and the retry used that row.
C1_RetryReusedRow ==
  /\ <<"consumption", last.user, today>> \in hist.orphan
  /\ last.op = "consumption" /\ last.ok /\ ~last.hit
  /\ Cardinality(RowsOf(consumption_sheet, last.user, today)) = 1
  /\ Len(consumption_sheet) = 2

(***************************************************************************)
(* C2.  Activity is set-once per day: without store faults, the first      *)
(* call for a (caller, habit) of the day returns ok and leaves a non-blank *)
(* cell under the habit's label, and every later call for it that day      *)
(* returns ok=false, "already recorded today", and changes nothing.        *)
(***************************************************************************)
C2_ActivitySetOnce ==
  [][(Called("activity") /\ last'.habit \in 1..5 /\ hist'.faults = 0) =>
       IF last'.first
       THEN /\ last'.ok
            /\ truthy_nonblank(CellUnder(activity_sheet', last'.user, today,
                                         habit_map[last'.habit]))
       ELSE /\ ~last'.ok
            /\ last'.msg = "already recorded today"
            /\ activity_sheet' = activity_sheet]_vars

(***************************************************************************)
(* C3.  Counters accumulate: when all the calls made on a sheet were valid *)
(* calls for one (caller, date, metric) and no store operation failed,     *)
(* every such call returned ok and the stored count is the sum of the      *)
(* increments (the run length of a consumption text, 1 for a session).     *)
(***************************************************************************)
C3_CountersAccumulate ==
  hist.faults = 0 =>
    /\ OneMetric(hist.touched_c) =>
         \A k \in hist.touched_c :
           /\ last.op = "consumption" => last.ok
           /\ StoredNumber(consumption_sheet, k[1], k[2],
                           col_map[k[3]].count_col) = hist.sum_count
    /\ OneMetric(hist.touched_l) =>
         \A k \in hist.touched_l :
           /\ last.op = "language" => last.ok
           /\ StoredNumber(language_sheet, k[1], k[2],
                           lang_map[k[3]].column_name) = hist.sum_sessions

\* Three consumption calls for one metric: "x", "xx 150" and "x" in some order.
C3_ThreeCallsOneMetric ==
  /\ hist.faults = 0 /\ calls = 3 /\ last.ok
  /\ OneMetric(hist.touched_c) /\ hist.touched_l = {}
  /\ hist.sum_count = 4
  /\ \A k \in hist.touched_c :
       StoredNumber(consumption_sheet, k[1], k[2], "Coffee (x)") = 4

(***************************************************************************)
(* C4.  Cost accumulates on its own: when all the consumption calls were   *)
(* valid calls for one (caller, date, letter) and no store operation       *)
(* failed, the stored cost (a blank cell counting as 0) is the sum of the  *)
(* costs of the calls, a call without a cost token adding 0.               *)
(***************************************************************************)
C4_CostAccumulates ==
  (hist.faults = 0 /\ OneMetric(hist.touched_c)) =>
    \A k \in hist.touched_c :
      StoredNumber(consumption_sheet, k[1], k[2],
                   col_map[k[3]].cost_col) = hist.sum_cost

\* "xx 150" then "x": count 3, cost 150.
C4_CostThenNoCost ==
  /\ hist.faults = 0 /\ OneMetric(hist.touched_c)
  /\ last.text = <<"x">> /\ last.ok /\ calls = 2
  /\ hist.sum_cost = 150 /\ hist.sum_count = 3
  /\ \A k \in hist.touched_c :
       /\ StoredNumber(consumption_sheet, k[1], k[2], "Coffee (x)") = 3
       /\ StoredNumber(consumption_sheet, k[1], k[2], "Coffee Cost") = 150

(***************************************************************************)
(* C5.  A validation failure never mutates the store: a habit id outside   *)
(* 1..5, a language code outside ch, he, ta, and a consumption text that   *)
(* is empty or whose first token is not a run of one letter of x, y, z     *)
(* each return ok=false and leave every sheet as it was.                   *)
(***************************************************************************)
C5_ValidationFailureLeavesStore ==
  [][(\/ Called("activity") /\ last'.habit \notin 1..5
      \/ Called("language") /\ last'.code \notin {"ch", "he", "ta"}
      \/ /\ Called("consumption")
         /\ \/ split(last'.text) = <<>>
            \/ split(last'.text)[1][1] \notin {"x", "y", "z"}
            \/ ~all_same(split(last'.text)[1]))
     => /\ ~last'.ok
        /\ ~last'.raised
        /\ activity_sheet' = activity_sheet
        /\ consumption_sheet' = consumption_sheet
        /\ language_sheet' = language_sheet]_vars

(***************************************************************************)
(* C6.  An unparseable cost never fails the operation: a consumption text  *)
(* whose first token is a run of one letter and whose second token is no   *)
(* number returns ok (when no store operation fails), adds the run length  *)
(* to the count and adds 0 to the cost.                                    *)
(***************************************************************************)
C6_UnparseableCostIsZero ==
  [][(/\ Called("consumption") /\ ~last'.hit
      /\ Len(split(last'.text)) >= 2
      /\ split(last'.text)[1][1] \in {"x", "y", "z"}
      /\ all_same(split(last'.text)[1])
      /\ int_float(split(last'.text)[2]).kind # "int")
     => LET u == last'.user
            config == col_map[split(last'.text)[1][1]]
            old(label) ==
              IF StoredNumber(consumption_sheet, u, today, label) < 0 THEN 0
              ELSE StoredNumber(consumption_sheet, u, today, label)
        IN /\ last'.ok
           /\ StoredNumber(consumption_sheet', u, today, config.count_col)
                = old(config.count_col) + Len(split(last'.text)[1])
           /\ StoredNumber(consumption_sheet', u, today, config.cost_col)
                = old(config.cost_col)]_vars

(***************************************************************************)
(* C7.  Authorization gates every store access: a command, free text or    *)
(* numbered, from a caller other than the configured one gets the denial   *)
(* message, no recorder is invoked, no store operation is made and every   *)
(* sheet stays as it was.                                                  *)
(***************************************************************************)
C7_UnauthorizedTouchesNothing ==
  [][(/\ calls' = calls + 1
      /\ last'.via = "handler"
      /\ last'.user # int(TELEGRAM_USER_ID))
     => /\ last'.msg = Denial
        /\ ~last'.invoked
        /\ last'.nops = 0
        /\ activity_sheet' = activity_sheet
        /\ consumption_sheet' = consumption_sheet
        /\ language_sheet' = language_sheet]_vars

\* A stranger sent a text that would have been recorded, and was denied.
C7_StrangerDenied ==
  /\ last.via = "handler" /\ last.user = 99 /\ last.msg = Denial
  /\ last.text = <<" ", "X", "x", " ", "1", "5", "0">>
  /\ Len(consumption_sheet) = 1

(***************************************************************************)
(* C8.  A failure of the store is contained by the recorder: whichever     *)
(* store operation of a call fails, the recorder returns a pair with       *)
(* ok=false and a message, and no exception escapes it.                    *)
(***************************************************************************)
C8_StoreFailureContained ==
  last.hit => ~last.raised /\ ~last.ok /\ last.msg # ""

(***************************************************************************)
(* C9.  The activity recorder creates its column: with the header          *)
(* User ID, Date, Week Number and no store fault, a call for a habit in    *)
(* 1..5 returns ok, after which the header holds the habit's label and     *)
(* the cell under it in the caller's row of the day is not blank.          *)
(***************************************************************************)
C9_ActivityColumnCreated ==
  [][(/\ Called("activity") /\ last'.habit \in 1..5 /\ ~last'.hit
      /\ row_values(activity_sheet, 1) = <<"User ID", "Date", "Week Number">>)
     => /\ last'.ok
        /\ index1(row_values(activity_sheet', 1), habit_map[last'.habit]) # 0
        /\ truthy_nonblank(CellUnder(activity_sheet', last'.user, today,
                                     habit_map[last'.habit]))]_vars

(***************************************************************************)
(* C10.  Header labels stay unique: in every sheet, after any calls, no    *)
(* two header cells hold the same label.                                   *)
(***************************************************************************)
C10_HeaderLabelsUnique ==
  /\ HeaderUnique(activity_sheet)
  /\ HeaderUnique(consumption_sheet)
  /\ HeaderUnique(language_sheet)

\* A label was created by one call and found again by the next.
C10_CreatedThenFound ==
  /\ layout = "minimal" /\ hist.faults = 0 /\ calls = 2
  /\ OneMetric(hist.touched_l) /\ hist.sum_sessions = 2 /\ last.ok
  /\ Len(language_sheet[1]) = 4
  /\ \A k \in hist.touched_l :
       /\ language_sheet[1][4] = lang_map[k[3]].column_name
       /\ StoredNumber(language_sheet, k[1], k[2], language_sheet[1][4]) = 2


(***************************************************************************)
(* What the properties read off a step of a row resolver.                  *)
(***************************************************************************)
\* The step was a direct call of the row resolver of the operation op.
Resolving(op) == calls' = calls + 1 /\ last'.via = "resolver" /\ last'.op = op

\* The header row holds the three labels every data row needs.
HasRowLabels(header) ==
  \A l \in {"User ID", "Date", "Week Number"} : index1(header, l) # 0

\* The cell i of a row, "" past its end.
CellAt(row, i) == IF i \in 1..Len(row) THEN row[i] ELSE ""

\* The row a resolver appended is as wide as the header, holds the caller,
\* the date and the week start under their labels, and blank or 0 elsewhere.
NewRowLaidOut(op, before, after) ==
  (/\ Resolving(op)
   /\ before # <<>>
   /\ HasRowLabels(row_values(before, 1))
   /\ Len(after) = Len(before) + 1)
  => LET header == row_values(before, 1)
         new_row == after[Len(after)]
         iu == index1(header, "User ID")
         id == index1(header, "Date")
         iw == index1(header, "Week Number")
     IN /\ Len(new_row) = Len(header)
        /\ CellAt(new_row, iu) = str(last'.user)
        /\ CellAt(new_row, id) = strftime_date(today)
        /\ CellAt(new_row, iw) = get_week_number(today)
        /\ \A i \in 1..Len(new_row) :
             i \notin {iu, id, iw} => new_row[i] \in {"", "0"}

(***************************************************************************)
(* C11.  A row resolver that finds no row for (caller, date) appends a row *)
(* as wide as the header row, with the caller id, the date and the week    *)
(* start in the columns labelled User ID, Date and Week Number wherever    *)
(* those labels stand in the header, and every other cell blank or 0.      *)
(***************************************************************************)
C11_NewRowFollowsHeader ==
  [][/\ NewRowLaidOut("activity", activity_sheet, activity_sheet')
     /\ NewRowLaidOut("consumption", consumption_sheet, consumption_sheet')
     /\ NewRowLaidOut("language", language_sheet, language_sheet')]_vars

\* The data rows whose User ID and Date cells, read under their labels as
\* text without surrounding blanks, are the caller and the day; a cell a
\* short row lacks reads as "".
MatchingRows(sheet, u, d) ==
  LET iu == index1(row_values(sheet, 1), "User ID")
      id == index1(row_values(sheet, 1), "Date")
  IN {i \in 2..Len(sheet) : /\ strip(CellAt(sheet[i], iu)) = str(u)
                            /\ strip(CellAt(sheet[i], id)) = strftime_date(d)}

\* A resolver call raises nothing, and when a row matches it returns the
\* first such row and leaves the sheet as it was.
RowMatched(op, before, after) ==
  (/\ Resolving(op)
   /\ before # <<>>
   /\ HasRowLabels(row_values(before, 1)))
  => /\ ~last'.raised
     /\ MatchingRows(before, last'.user, today) # {} =>
          /\ last'.row = Min(MatchingRows(before, last'.user, today))
          /\ after = before

(***************************************************************************)
(* C12.  Row matching tolerates how cells are typed and never fails: when  *)
(* some data row holds the caller and the date under User ID and Date once *)
(* the cells are read as text without surrounding blanks, the resolver     *)
(* returns the first such row and appends nothing; rows shorter than the   *)
(* header are compared with their missing cells as "" and raise nothing.   *)
(***************************************************************************)
C12_RowMatchingTolerant ==
  [][/\ RowMatched("activity", activity_sheet, activity_sheet')
     /\ RowMatched("consumption", consumption_sheet, consumption_sheet')
     /\ RowMatched("language", language_sheet, language_sheet')]_vars

\* The caller's row of the day is the same however it is looked for: the
\* header starts with User ID and Date, and the rows that match as typed
\* are the rows that match without surrounding blanks.
RowUnambiguous(sheet, u, d) ==
  /\ sheet # <<>>
  /\ HasRowLabels(row_values(sheet, 1))
  /\ index1(row_values(sheet, 1), "User ID") = 1
  /\ index1(row_values(sheet, 1), "Date") = 2
  /\ MatchingRows(sheet, u, d) = RowsOf(sheet, u, d)

(***************************************************************************)
(* C13.  A language call with a code of ch, he, ta always succeeds: it     *)
(* returns ok, the cell under the language's label in the caller's row of  *)
(* the day then holds the number it held before plus 1 (a missing, blank   *)
(* or non-numeric cell counting as 0), and the reply announces that number *)
(* as the session ordinal.                                                 *)
(***************************************************************************)
C13_SessionCounts ==
  [][(/\ Called("language")
      /\ last'.code \in DOMAIN lang_map
      /\ RowUnambiguous(language_sheet, last'.user, today))
     => LET label == lang_map[last'.code].column_name
            before == StoredNumber(language_sheet, last'.user, today, label)
            previous == IF before < 0 THEN 0 ELSE before
            stored == StoredNumber(language_sheet', last'.user, today, label)
        IN /\ last'.ok
           /\ stored = previous + 1
           /\ last'.msg = lang_map[last'.code].lang_name \o " session #"
                            \o str(stored) \o " recorded at " \o timestamp]_vars

(***************************************************************************)
(* What the properties read off two invocations under way.                 *)
(***************************************************************************)
\* The count in the cell an invocation wrote.
RaceStored(s) ==
  safe_int(cell(RaceSheet(s.op), s.row_num, s.count_col_index))

\* Both invocations are over, they were for the same metric and wrote the
\* same cell, and each had read the cell before the other wrote it.
BothReadBeforeEitherWrote ==
  /\ \A p \in Procs : /\ procs[p].pc = "done"
                      /\ procs[p].has_written
                      /\ procs[p].stale
  /\ procs[1].op = procs[2].op
  /\ procs[1].key = procs[2].key
  /\ procs[1].row_num = procs[2].row_num
  /\ procs[1].count_col_index = procs[2].count_col_index

(***************************************************************************)
(* C14.  The read-modify-write of a cell is not atomic: when two           *)
(* invocations for the same (caller, day, metric) both read the cell       *)
(* before either writes it, both return ok, and the stored count has grown *)
(* by the increment of one of them, which is less than the sum of the two  *)
(* increments.  Nothing in the recorders keeps the store operations of two *)
(* invocations from interleaving so.                                       *)
(***************************************************************************)
C14_LostUpdate ==
  BothReadBeforeEitherWrote =>
    /\ procs[1].ok /\ procs[2].ok
    /\ procs[1].current_count = procs[2].current_count
    /\ RaceStored(procs[1]) - procs[1].current_count
         \in {procs[1].count, procs[2].count}
    /\ RaceStored(procs[1]) - procs[1].current_count
         < procs[1].count + procs[2].count

\* Two sessions of Chinese were recorded at once: both replies announce
\* session #1 and the cell holds 1.
C14_TwoSessionsOneStored ==
  /\ BothReadBeforeEitherWrote
  /\ procs[1].op = "language"
  /\ \A p \in Procs :
       /\ procs[p].ok
       /\ procs[p].msg = "Chinese session #1 recorded at " \o timestamp
  /\ RaceStored(procs[1]) = 1
  /\ Len(language_sheet) = 2

(***************************************************************************)
(* What the properties read off row 1.                                     *)
(***************************************************************************)
\* The labels of the metric columns, which the recorders may add to row 1.
MetricLabels ==
  {habit_map[h] : h \in DOMAIN habit_map}
    \cup {col_map[l].count_col : l \in DOMAIN col_map}
    \cup {col_map[l].cost_col : l \in DOMAIN col_map}
    \cup {lang_map[c].column_name : c \in DOMAIN lang_map}

Row1(sheet) == IF sheet = <<>> THEN <<>> ELSE sheet[1]

\* Row 1 is as it was, but for metric labels put into cells that were blank.
HeaderKept(before, after) ==
  \A i \in 1..Max({Len(Row1(before)), Len(Row1(after))}) :
    \/ CellAt(Row1(after), i) = CellAt(Row1(before), i)
    \/ /\ CellAt(Row1(before), i) = ""
       /\ CellAt(Row1(after), i) \in MetricLabels

(***************************************************************************)
(* C15.  The header row is never used as a data row, whatever the sheet    *)
(* holds at first, a worksheet without any row included: a row resolver    *)
(* that returns a row returns one from 2 on, and no call puts anything     *)
(* into row 1 but the label of a new column in a blank cell (no caller or  *)
(* date, no check mark, no count or cost, nothing over a label).           *)
(***************************************************************************)
C15_HeaderRowNotData ==
  [][/\ (calls' = calls + 1 /\ last'.via = "resolver" /\ last'.row # 0)
          => last'.row >= 2
     /\ HeaderKept(activity_sheet, activity_sheet')
     /\ HeaderKept(consumption_sheet, consumption_sheet')
     /\ HeaderKept(language_sheet, language_sheet')]_vars

(***************************************************************************)
(* What a recorder call may touch.                                         *)
(***************************************************************************)
\* The labels of the columns a call records into: the habit's column, the
\* count and cost columns of the text's letter, the language's column; none
\* for an input the recorders reject.
TargetLabels(c) ==
  CASE c.op = "activity" /\ c.habit \in DOMAIN habit_map ->
         {habit_map[c.habit]}
    [] c.op = "consumption" /\ text_strip(c.text) # <<>>
         /\ lower_char(text_strip(c.text)[1]) \in DOMAIN col_map ->
         {col_map[lower_char(text_strip(c.text)[1])].count_col,
          col_map[lower_char(text_strip(c.text)[1])].cost_col}
    [] c.op = "language" /\ c.code \in DOMAIN lang_map ->
         {lang_map[c.code].column_name}
    [] OTHER -> {}

\* Row r of the sheet is a row of caller u for day d: it holds the caller
\* and the date in its first two cells or under their labels, blanks around
\* them aside.
CallersRow(sheet, r, u, d) ==
  \/ /\ strip(CellAt(sheet[r], 1)) = str(u)
     /\ strip(CellAt(sheet[r], 2)) = strftime_date(d)
  \/ r \in MatchingRows(sheet, u, d)

\* What a cell holds when it holds a date or the start of a week.
DateTexts == {strftime_date(d) : d \in 0..MaxDay}

\* Between before and after no row went away, row 1 of a sheet that had one
\* changed only by a label of the call's metric put into a blank cell, and a
\* cell of an earlier data row changed only in a row of the caller for
\* today, under a label of the call's metric, past the first two cells, and
\* not where the row held a date or a week start.
FrameKept(c, before, after) ==
  /\ Len(after) >= Len(before)
  /\ before # <<>> =>
       \A i \in 1..Max({Len(before[1]), Len(after[1])}) :
         \/ CellAt(after[1], i) = CellAt(before[1], i)
         \/ /\ CellAt(before[1], i) = ""
            /\ CellAt(after[1], i) \in TargetLabels(c)
  /\ \A r \in 2..Len(before) :
       \A i \in 1..Max({Len(before[r]), Len(after[r])}) :
         CellAt(after[r], i) # CellAt(before[r], i) =>
           /\ CallersRow(before, r, c.user, today)
           /\ CellAt(after[1], i) \in TargetLabels(c)
           /\ i > 2
           /\ strip(CellAt(before[r], i)) \notin DateTexts

\* The sheet a call of the operation works on, in the state given.
SheetOf(op, a, c, l) ==
  CASE op = "activity" -> a [] op = "consumption" -> c [] OTHER -> l

(***************************************************************************)
(* C16.  A recorder call changes nothing outside its target: the two       *)
(* other sheets stay as they were; in its own sheet every label already in *)
(* row 1 stays, every earlier data row that is not a row of the caller for *)
(* today stays cell for cell, and in the caller's row of today only the    *)
(* cell under the label of the metric recorded changes (the count cell     *)
(* and, for consumption, the cost cell of the same letter), never the      *)
(* caller, the date, the week start or the cell of another metric.         *)
(***************************************************************************)
C16_RecorderFrame ==
  [][(calls' = calls + 1 /\ last'.invoked) =>
       /\ last'.op # "activity" => activity_sheet' = activity_sheet
       /\ last'.op # "consumption" => consumption_sheet' = consumption_sheet
       /\ last'.op # "language" => language_sheet' = language_sheet
       /\ FrameKept(last',
                    SheetOf(last'.op, activity_sheet, consumption_sheet,
                            language_sheet),
                    SheetOf(last'.op, activity_sheet', consumption_sheet',
                            language_sheet'))]_vars

\* A coffee was recorded for caller 42 on a sheet that held a row of caller
\* 99 and a row of caller 42 for the day: the count of the second went from
\* 1 to 2 and every other cell of the sheet is as it was found.
C16_CountCellAlone ==
  /\ impl = "bot" /\ layout = "used" /\ today = 0
  /\ last.invoked /\ last.ok
  /\ last.op = "consumption" /\ last.user = 42 /\ last.text = <<"x">>
  /\ consumption_sheet =
       <<ConsumptionHeader,
         UsedRows("consumption")[1],
         [UsedRows("consumption")[2] EXCEPT ![3] = "2"]>>
====
